---- MODULE Spec2Model ----
(***************************************************************************)
(* FlaskForge: the project generation pipeline of src/flaskforge.py and    *)
(* src/fforge.py (class FlaskForge, method run and the stages it calls).   *)
(*                                                                         *)
(* A Python str is modelled as a sequence of tokens (a token is one        *)
(* character, or an indivisible piece of fixed text), so that strip,       *)
(* split, join and concatenation are computed as Python computes them.     *)
(* The filesystem is the pair (dirs, files): the set of directory paths    *)
(* and a function from file paths to contents.  Only what the generator    *)
(* itself writes is tracked; what the external commands write is not.      *)
(***************************************************************************)
EXTENDS Integers, Sequences, FiniteSets, TLC

\* ------------------------------------------------------------------ bounds
MaxHookLen == 3
MaxBlueprints == 2
MaxDeps == 2
MaxNameLen == 2
MaxCalls == 2

SeqsUpTo(S, n) == UNION {[1..k -> S] : k \in 0..n}

\* --------------------------------------------------------- str operations
IsSpace(c) == c = " "

RECURSIVE LStrip(_)
LStrip(s) == IF s # <<>> /\ IsSpace(Head(s)) THEN LStrip(Tail(s)) ELSE s

RECURSIVE RStrip(_)
RStrip(s) ==
    IF s # <<>> /\ IsSpace(s[Len(s)]) THEN RStrip(SubSeq(s, 1, Len(s) - 1)) ELSE s

\* str.strip()
Strip(s) == RStrip(LStrip(s))

\* str.split(c): the pieces between the occurrences of c ("" gives [""])
RECURSIVE SplitFrom(_, _, _)
SplitFrom(s, c, cur) ==
    IF s = <<>> THEN <<cur>>
    ELSE IF Head(s) = c THEN <<cur>> \o SplitFrom(Tail(s), c, <<>>)
    ELSE SplitFrom(Tail(s), c, Append(cur, Head(s)))

Split(s, c) == SplitFrom(s, c, <<>>)

\* sep.join(list)
RECURSIVE JoinStr(_, _)
JoinStr(sep, list) ==
    IF list = <<>> THEN <<>>
    ELSE IF Len(list) = 1 THEN list[1]
    ELSE list[1] \o sep \o JoinStr(sep, Tail(list))

\* ------------------------------------------------------------------ state
VARIABLES
    variant,          \* "flaskforge" (src/flaskforge.py) or "fforge" (src/fforge.py)
    platform,         \* platform.system()
    project_name, blueprints, dependencies, verbosity, template, post_gen_hooks,
    project_path, venv_dir,
    venv_dir_option,  \* args.venv_dir: <<>> for None, else <<its value>>
    template_tree,    \* the files os.walk finds under templates/<template>
    log_level,        \* the level given to logging.basicConfig
    activate_command, \* <<>> while the attribute is not set, <<value>> once set
    pc,               \* the statement of run that is executed next
    dirs, files,      \* the filesystem
    cmds,             \* the external commands issued so far, in order
    log,              \* the calls made on self.logger, in order
    fsops,            \* the filesystem operations performed so far, in order
    stages,           \* the stages of run entered so far, in order
    exc,              \* the exception that left run ("" if none)
    exit_code         \* -1 while the process runs, then its exit status

vars == <<variant, platform, project_name, blueprints, dependencies, verbosity,
          template, post_gen_hooks, project_path, venv_dir, venv_dir_option,
          template_tree, log_level,
          activate_command, pc, dirs, files, cmds, log, fsops, stages, exc,
          exit_code>>

config == <<variant, platform, project_name, blueprints, dependencies, verbosity,
            template, post_gen_hooks, project_path, venv_dir, venv_dir_option,
            template_tree, log_level>>

\* ------------------------------------------------------------------ paths
\* os.sep
Sep == IF platform = "Windows" THEN "\\" ELSE "/"

\* os.getcwd()
Cwd == <<Sep, "w">>

\* os.path.join(a, b)
PathJoin(a, b) ==
    IF b # <<>> /\ Head(b) = Sep THEN b
    ELSE IF a = <<>> \/ a[Len(a)] = Sep THEN a \o b
    ELSE a \o <<Sep>> \o b

PathJoin3(a, b, c) == PathJoin(PathJoin(a, b), c)

RECURSIVE LastSep(_, _)
LastSep(p, i) == IF i = 0 \/ p[i] = Sep THEN i ELSE LastSep(p, i - 1)

RECURSIVE RStripSep(_)
RStripSep(s) ==
    IF s # <<>> /\ s[Len(s)] = Sep THEN RStripSep(SubSeq(s, 1, Len(s) - 1)) ELSE s

\* os.path.dirname(p)
Dirname(p) ==
    LET head == SubSeq(p, 1, LastSep(p, Len(p)))
    IN  IF RStripSep(head) = <<>> THEN head ELSE RStripSep(head)

OrSecondFirst(x, y) == IF y # <<>> THEN y ELSE x

\* x or y, on str values
Or(x, y) == IF x # <<>> THEN x ELSE y

\* ------------------------------------------------------------- filesystem
Exists(d, f, p) == p \in d \/ p \in DOMAIN f

RECURSIVE MakeDirsNoExistOk(_, _, _)
MakeDirsNoExistOk(d, f, path) ==
    LET head == Dirname(path)
        up == IF head # <<>> /\ head # path /\ ~Exists(d, f, head)
              THEN MakeDirsNoExistOk(d, f, head)
              ELSE [dirs |-> d, ok |-> TRUE]
    IN  IF ~up.ok THEN up
        ELSE IF Exists(up.dirs, f, path) \/ head \notin up.dirs
             THEN [dirs |-> up.dirs, ok |-> FALSE]
        ELSE [dirs |-> up.dirs \cup {path}, ok |-> TRUE]

\* os.makedirs(path, exist_ok=True): the directories afterwards, and whether
\* it returned (ok) or raised OSError
RECURSIVE MakeDirs(_, _, _)
MakeDirs(d, f, path) ==
    LET head == Dirname(path)
        up == IF head # <<>> /\ head # path /\ ~Exists(d, f, head)
              THEN MakeDirs(d, f, head)
              ELSE [dirs |-> d, ok |-> TRUE]
    IN  IF ~up.ok THEN up
        ELSE IF path \in up.dirs THEN up
        ELSE IF path \in DOMAIN f \/ head \notin up.dirs
             THEN [dirs |-> up.dirs, ok |-> FALSE]
        ELSE [dirs |-> up.dirs \cup {path}, ok |-> TRUE]

\* open(path, 'w') succeeds: the parent is a directory, path is not one
CanOpenW(d, path) == path \notin d /\ Dirname(path) \in d

WriteFileAppending(f, path, data) ==
    [q \in DOMAIN f \cup {path} |->
        IF q = path THEN (IF path \in DOMAIN f THEN f[path] ELSE <<>>) \o data
        ELSE f[q]]

\* with open(path, 'w') as f: f.write(data)
WriteFile(f, path, data) ==
    [q \in DOMAIN f \cup {path} |-> IF q = path THEN data ELSE f[q]]

MkOp(path) == [kind |-> "makedirs", path |-> path, data |-> <<>>]
WrOp(path, data) == [kind |-> "write", path |-> path, data |-> data]

\* An environment fault (permissions, full disk, ...) makes the at-th
\* operation of a stage raise OSError (at = 0: none); trunc tells whether a
\* failing write had already opened, and so truncated, its file.
NoFault == [at |-> 0, trunc |-> FALSE]
Faults(ops) == {NoFault} \cup
    {[at |-> k, trunc |-> t] : k \in 1..Len(ops), t \in BOOLEAN}

\* The operations of a stage, in program order, up to the first that raises
RECURSIVE RunOps(_, _, _, _, _)
RunOps(d, f, ops, i, fault) ==
    IF i > Len(ops) THEN [dirs |-> d, files |-> f, ok |-> TRUE, n |-> Len(ops)]
    ELSE LET op == ops[i] IN
         IF fault.at = i
         THEN [dirs |-> d,
               files |-> IF op.kind = "write" /\ fault.trunc /\ CanOpenW(d, op.path)
                         THEN WriteFile(f, op.path, <<>>) ELSE f,
               ok |-> FALSE, n |-> i - 1]
         ELSE IF op.kind = "makedirs"
         THEN LET r == MakeDirs(d, f, op.path) IN
              IF r.ok THEN RunOps(r.dirs, f, ops, i + 1, fault)
              ELSE [dirs |-> r.dirs, files |-> f, ok |-> FALSE, n |-> i - 1]
         ELSE IF CanOpenW(d, op.path)
              THEN RunOps(d, WriteFile(f, op.path, op.data), ops, i + 1, fault)
              ELSE [dirs |-> d, files |-> f, ok |-> FALSE, n |-> i - 1]

\* ---------------------------------------------------------------- logging
CRITICAL == 50
ERROR == 40
WARNING == 30
INFO == 20
DEBUG == 10

LogLevelOfDefaultWarning(v) ==
    CASE v = 0 -> CRITICAL
      [] v = 1 -> ERROR
      [] v = 2 -> WARNING
      [] v = 3 -> INFO
      [] v = 4 -> DEBUG
      [] OTHER -> WARNING

\* log_levels.get(self.verbosity, logging.INFO)
LogLevelOf(v) ==
    CASE v = 0 -> CRITICAL
      [] v = 1 -> ERROR
      [] v = 2 -> WARNING
      [] v = 3 -> INFO
      [] v = 4 -> DEBUG
      [] OTHER -> INFO

LogInfo(msg) == [level |-> INFO, msg |-> msg, arg |-> <<>>]
LogError(msg) == [level |-> ERROR, msg |-> msg, arg |-> <<>>]
LogErrorOn(msg, arg) == [level |-> ERROR, msg |-> msg, arg |-> arg]

\* -------------------------------------------------------------------- run
RunBodyRenderLast(v) ==
    IF v = "flaskforge"
    THEN <<"create_directories", "create_virtualenv", "install_dependencies",
           "create_blueprints", "create_init_py",
           "create_models_py", "create_docker_files", "create_ci_cd_files",
           "create_base_files", "initialize_database", "run_post_gen_hooks",
           "log_success">>
    ELSE <<"create_directories", "create_virtualenv",
           "create_blueprints", "create_init_py",
           "create_models_py", "create_docker_files", "create_ci_cd_files",
           "create_base_files", "initialize_database", "run_post_gen_hooks",
           "log_success">>

\* The body of run, statement by statement
RunBody(v) ==
    IF v = "flaskforge"
    THEN <<"create_directories", "create_virtualenv", "install_dependencies",
           "create_base_files", "create_blueprints", "create_init_py",
           "create_models_py", "create_docker_files", "create_ci_cd_files",
           "initialize_database", "run_post_gen_hooks", "log_success">>
    ELSE <<"create_directories", "create_virtualenv",
           "create_base_files", "create_blueprints", "create_init_py",
           "create_models_py", "create_docker_files", "create_ci_cd_files",
           "initialize_database", "run_post_gen_hooks", "log_success">>

Running == exit_code = -1

\* pc = Direct: the methods are not called by run but one by one by a caller
\* that holds the object (at most MaxCalls calls)
Direct == -1

\* The statement of run at position pc, or any method when called directly
At(stmt) ==
    /\ Running
    /\ \/ pc \in 1..Len(RunBody(variant)) /\ RunBody(variant)[pc] = stmt
       \/ pc = Direct /\ Len(stages) < MaxCalls

\* The call returned: run goes on with its next statement
Return(stmt) ==
    /\ pc' = IF pc = Direct THEN Direct ELSE pc + 1
    /\ stages' = Append(stages, stmt)
    /\ UNCHANGED <<exc, exit_code>>

\* The call raised e, which nothing catches: run and main are left, the
\* interpreter prints the traceback and exits with status 1
Raise(stmt, e) ==
    /\ pc' = 0
    /\ stages' = Append(stages, stmt)
    /\ exc' = e
    /\ exit_code' = 1

\* The first n operations of ops, as performed by the method by
Performed(by, ops, n) ==
    [i \in 1..n |-> [by |-> by, kind |-> ops[i].kind, path |-> ops[i].path,
                     data |-> ops[i].data]]

\* What the environment did to the stage: the operation it made fail, if any
FaultEvent(by, ops, r, fault) ==
    IF ~r.ok /\ fault.at = r.n + 1
    THEN <<[by |-> by, kind |-> "fault", path |-> ops[fault.at].path, data |-> <<>>]>>
    ELSE <<>>

\* A stage that only performs the filesystem operations ops and then logs
\* msg, inside no try block
Unguarded(stmt, ops, msg) ==
    /\ At(stmt)
    /\ \E fault \in Faults(ops) :
         LET r == RunOps(dirs, files, ops, 1, fault) IN
         /\ dirs' = r.dirs
         /\ files' = r.files
         /\ fsops' = fsops \o Performed(stmt, ops, r.n)
                            \o FaultEvent(stmt, ops, r, fault)
         /\ IF r.ok
            THEN log' = Append(log, LogInfo(msg)) /\ Return(stmt)
            ELSE UNCHANGED log /\ Raise(stmt, "OSError")
    /\ UNCHANGED <<config, activate_command, cmds>>

\* -------------------------------------------------------- create_directories
PackagePath == PathJoin(project_path, project_name)

DirectoryOpsNoStatic ==
    << MkOp(project_path),
       MkOp(PackagePath),
       MkOp(PathJoin3(project_path, project_name, <<"templates">>)) >>

DirectoryOps ==
    << MkOp(project_path),
       MkOp(PackagePath),
       MkOp(PathJoin3(project_path, project_name, <<"templates">>)),
       MkOp(PathJoin3(project_path, project_name, <<"static">>)) >>

create_directories ==
    /\ At("create_directories")
    /\ \E fault \in Faults(DirectoryOps) :
         LET r == RunOps(dirs, files, DirectoryOps, 1, fault) IN
         /\ dirs' = r.dirs
         /\ files' = r.files
         /\ fsops' = fsops \o Performed("create_directories", DirectoryOps, r.n)
                            \o FaultEvent("create_directories", DirectoryOps, r, fault)
         /\ IF r.ok
            THEN /\ log' = Append(log, LogInfo("Directories created"))
                 /\ Return("create_directories")
            ELSE IF variant = "flaskforge"
            THEN /\ log' = Append(log, LogError("Error creating directories"))
                 /\ Return("create_directories")
            ELSE /\ UNCHANGED log
                 /\ Raise("create_directories", "OSError")
    /\ UNCHANGED <<config, activate_command, cmds>>

\* --------------------------------------------------------- external commands
\* The status of a command that could not be started (Popen raised OSError)
LaunchError == -1

\* One subprocess.run call: the method that made it, the command line, the
\* shell and cwd arguments (cwd <<>>: not given) and the exit status
Cmd(by, line, shell, cwd, status) ==
    [by |-> by, cmd |-> line, shell |-> shell, cwd |-> cwd, status |-> status]

HasActivateCommand == activate_command # <<>>

\* --------------------------------------------------------- create_virtualenv
VenvCommand == JoinStr(<<" ">>, <<<<"python">>, <<"-m">>, <<"venv">>, venv_dir>>)

ActivateCommandValue ==
    IF platform = "Windows"
    THEN PathJoin3(venv_dir, <<"Scripts">>, <<"activate">>)
    ELSE <<"source ">> \o PathJoin3(venv_dir, <<"bin">>, <<"activate">>)

create_virtualenv ==
    /\ At("create_virtualenv")
    /\ \E st \in {0, 1, LaunchError} :
         /\ cmds' = Append(cmds, Cmd("create_virtualenv", VenvCommand, FALSE, <<>>, st))
         /\ IF st = LaunchError
            THEN /\ UNCHANGED <<log, activate_command>>
                 /\ Raise("create_virtualenv", "FileNotFoundError")
            ELSE IF variant = "flaskforge" /\ st # 0
            THEN /\ log' = Append(log, LogError("Error creating virtual environment"))
                 /\ UNCHANGED activate_command
                 /\ Return("create_virtualenv")
            ELSE /\ log' = Append(log, LogInfo("Virtual environment created"))
                 /\ activate_command' = <<ActivateCommandValue>>
                 /\ Return("create_virtualenv")
    /\ UNCHANGED <<config, dirs, files, fsops>>

\* ------------------------------------------------------ install_dependencies
InstallCommand(prefix) ==
    prefix \o <<" && ", "pip install ">> \o JoinStr(<<" ">>, dependencies)

install_dependencies ==
    /\ At("install_dependencies")
    /\ IF dependencies = <<>>
       THEN /\ UNCHANGED <<cmds, log>>
            /\ Return("install_dependencies")
       ELSE IF ~HasActivateCommand
       THEN /\ UNCHANGED <<cmds, log>>
            /\ Raise("install_dependencies", "AttributeError")
       ELSE \E st \in {0, 1} :
            /\ cmds' = Append(cmds, Cmd("install_dependencies",
                                        InstallCommand(activate_command[1]),
                                        TRUE, <<>>, st))
            /\ log' = Append(log, IF st = 0
                                  THEN LogInfo("Dependencies installed")
                                  ELSE LogError("Error installing dependencies"))
            /\ Return("install_dependencies")
    /\ UNCHANGED <<config, activate_command, dirs, files, fsops>>

\* --------------------------------------------------------- create_base_files
Placeholder == "{{ project_name }}"

RECURSIVE Substitute(_)
Substitute(body) ==
    IF body = <<>> THEN <<>>
    ELSE (IF Head(body) = Placeholder THEN project_name ELSE <<Head(body)>>)
         \o Substitute(Tail(body))

\* Template(text).render(project_name=self.project_name): the placeholder is
\* replaced, and jinja2 drops one trailing newline of the template
Render(body) ==
    LET out == Substitute(body)
    IN  IF body # <<>> /\ body[Len(body)] = "\n"
        THEN SubSeq(out, 1, Len(out) - 1) ELSE out

RECURSIVE BaseFileOps(_)
BaseFileOps(tree) ==
    IF tree = <<>> THEN <<>>
    ELSE LET dest_path == PathJoin(project_path, Head(tree).rel)
         IN  <<MkOp(Dirname(dest_path)), WrOp(dest_path, Render(Head(tree).body))>>
             \o BaseFileOps(Tail(tree))

create_base_files ==
    Unguarded("create_base_files", BaseFileOps(template_tree),
              "Base files created from template")

\* --------------------------------------------------------- create_blueprints
Upper(c) == CASE c = "a" -> "A" [] c = "b" -> "B" [] OTHER -> c
Lower(c) == CASE c = "A" -> "a" [] c = "B" -> "b" [] OTHER -> c

CapitalizeFirstOnly(s) ==
    [i \in 1..Len(s) |-> IF i = 1 THEN Upper(s[i]) ELSE s[i]]

\* str.capitalize()
Capitalize(s) ==
    [i \in 1..Len(s) |-> IF i = 1 THEN Upper(s[i]) ELSE Lower(s[i])]

RoutesPyLowered(bp) ==
    <<"from flask import Blueprint, render_template\n">> \o bp
    \o <<" = Blueprint('">> \o bp
    \o <<"', __name__, template_folder='templates', static_folder='static')\n\n@">>
    \o bp \o <<".route('/">> \o [i \in 1..Len(bp) |-> Lower(bp[i])]
    \o <<"_home')\ndef ">> \o bp
    \o <<"_home():\n    return render_template('">> \o bp \o <<"/">> \o bp
    \o <<"_home.html')\n">>

RoutesPy(bp) ==
    <<"from flask import Blueprint, render_template\n">> \o bp
    \o <<" = Blueprint('">> \o bp
    \o <<"', __name__, template_folder='templates', static_folder='static')\n\n@">>
    \o bp \o <<".route('/">> \o bp \o <<"_home')\ndef ">> \o bp
    \o <<"_home():\n    return render_template('">> \o bp \o <<"/">> \o bp
    \o <<"_home.html')\n">>

BlueprintInitPy(bp) == <<"from .routes import ">> \o bp

FormsPy == <<"from flask_wtf import FlaskForm ...\n">>

HomeHtml(bp) ==
    <<"{% extends \"base.html\" %}\n{% block content %}\n<h1>Welcome to the ">>
    \o Capitalize(bp) \o <<" Home Page</h1>\n{% endblock %}\n">>

\* create_blueprint_files(bp, bp_dir)
BlueprintFileOps(bp, bp_dir) ==
    << WrOp(PathJoin(bp_dir, <<"routes.py">>), RoutesPy(bp)),
       WrOp(PathJoin(bp_dir, <<"__init__.py">>), BlueprintInitPy(bp)),
       WrOp(PathJoin(bp_dir, <<"forms.py">>), FormsPy),
       WrOp(PathJoin3(bp_dir, <<"templates">>, bp \o <<"_home.html">>), HomeHtml(bp)) >>

BlueprintDir(bp) == PathJoin3(project_path, project_name, bp)

RECURSIVE BlueprintOpsUntrimmed(_)
BlueprintOpsUntrimmed(list) ==
    IF list = <<>> THEN <<>>
    ELSE LET bp == Head(list)
             bp_dir == BlueprintDir(bp)
         IN  (IF bp # <<>>
              THEN << MkOp(bp_dir),
                      MkOp(PathJoin(bp_dir, <<"templates">>)),
                      MkOp(PathJoin(bp_dir, <<"static">>)) >>
                   \o BlueprintFileOps(bp, bp_dir)
              ELSE <<>>)
             \o BlueprintOpsUntrimmed(Tail(list))

RECURSIVE BlueprintOps(_)
BlueprintOps(list) ==
    IF list = <<>> THEN <<>>
    ELSE LET bp == Strip(Head(list))
             bp_dir == BlueprintDir(bp)
         IN  (IF bp # <<>>
              THEN << MkOp(bp_dir),
                      MkOp(PathJoin(bp_dir, <<"templates">>)),
                      MkOp(PathJoin(bp_dir, <<"static">>)) >>
                   \o BlueprintFileOps(bp, bp_dir)
              ELSE <<>>)
             \o BlueprintOps(Tail(list))

create_blueprints ==
    Unguarded("create_blueprints", BlueprintOps(blueprints), "Blueprints created")

\* ------------------------------------------------------- the fixed files
InitPyBody == <<"from flask import Flask ... def create_app(): ...\n">>
ModelsPyBody == <<"from . import db ... class User(db.Model): ...\n">>
DockerfileBody == <<"FROM python:3.8-slim-buster ...\n">>
ComposeBody == <<"version: '3' ...\n">>
WorkflowBody == <<"name: Python application ...\n">>

InitPyPath == PathJoin3(project_path, project_name, <<"__init__.py">>)
ModelsPyPath == PathJoin3(project_path, project_name, <<"models.py">>)
DockerfilePath == PathJoin(project_path, <<"Dockerfile">>)
ComposePath == PathJoin(project_path, <<"docker-compose.yml">>)
GithubDir == PathJoin3(project_path, <<".github">>, <<"workflows">>)
WorkflowPath == PathJoin(GithubDir, <<"python-app.yml">>)

create_init_py ==
    Unguarded("create_init_py", <<WrOp(InitPyPath, InitPyBody)>>,
              "Created __init__.py for Flask app")

create_models_py ==
    Unguarded("create_models_py", <<WrOp(ModelsPyPath, ModelsPyBody)>>,
              "Created models.py")

create_docker_files ==
    Unguarded("create_docker_files",
              <<WrOp(DockerfilePath, DockerfileBody), WrOp(ComposePath, ComposeBody)>>,
              "Created Docker files")

create_ci_cd_files ==
    Unguarded("create_ci_cd_files",
              <<MkOp(GithubDir), WrOp(WorkflowPath, WorkflowBody)>>,
              "Created CI/CD files")

\* ------------------------------------------------------- initialize_database
DbCommandsBare(prefix) ==
    << <<"flask db init">>, <<"flask db migrate">>, <<"flask db upgrade">> >>

DbCommands(prefix) ==
    << prefix \o <<" && ", "flask db init">>,
       prefix \o <<" && ", "flask db migrate">>,
       prefix \o <<" && ", "flask db upgrade">> >>

\* The exit statuses o[1..n] of n commands run one after the other: the
\* position of the first that is not 0, or n if there is none
RECURSIVE FirstFailure(_, _, _)
FirstFailure(o, i, n) ==
    IF i >= n \/ o[i] # 0 THEN i ELSE FirstFailure(o, i + 1, n)

\* How many of the three commands are run, given their exit statuses:
\* flaskforge.py runs them with check=True inside one try block, fforge.py
\* ignores the exit status
DbInvokedUnchecked(v, o) == 3

DbInvoked(v, o) == IF v = "flaskforge" THEN FirstFailure(o, 1, 3) ELSE 3

initialize_database ==
    /\ At("initialize_database")
    /\ IF ~HasActivateCommand
       THEN /\ UNCHANGED <<cmds, log>>
            /\ Raise("initialize_database", "AttributeError")
       ELSE \E o \in [1..3 -> {0, 1}] :
            LET n == DbInvoked(variant, o)
                lines == DbCommands(activate_command[1])
            IN  /\ cmds' = cmds \o [i \in 1..n |->
                                Cmd("initialize_database", lines[i], TRUE,
                                    project_path, o[i])]
                /\ log' = Append(log,
                       IF variant = "flaskforge" /\ \E i \in 1..n : o[i] # 0
                       THEN LogError("Error initializing database")
                       ELSE LogInfo("Initialized database"))
                /\ Return("initialize_database")
    /\ UNCHANGED <<config, activate_command, dirs, files, fsops>>

\* -------------------------------------------------------- run_post_gen_hooks
\* How many of the n hooks are run, given their exit statuses: flaskforge.py
\* catches CalledProcessError inside the loop body, fforge.py does not check
HooksInvokedUntilFailure(v, o, n) == FirstFailure(o, 1, n)

HooksInvoked(v, o, n) == n

HookCommandUntrimmed(prefix, hook) == prefix \o <<" && ">> \o hook

HookCommand(prefix, hook) == prefix \o <<" && ">> \o Strip(hook)

RECURSIVE HookErrors(_, _, _)
HookErrors(hooks, o, i) ==
    IF i > Len(hooks) THEN <<>>
    ELSE (IF o[i] # 0
          THEN <<LogErrorOn("Error running post-generation hook", hooks[i])>>
          ELSE <<>>)
         \o HookErrors(hooks, o, i + 1)

run_post_gen_hooks ==
    /\ At("run_post_gen_hooks")
    /\ IF post_gen_hooks = <<>>
       THEN /\ UNCHANGED <<cmds, log>>
            /\ Return("run_post_gen_hooks")
       ELSE LET hooks == Split(post_gen_hooks, ",") IN
            IF ~HasActivateCommand
            THEN /\ UNCHANGED <<cmds, log>>
                 /\ Raise("run_post_gen_hooks", "AttributeError")
            ELSE \E o \in [1..Len(hooks) -> {0, 1}] :
                 LET n == HooksInvoked(variant, o, Len(hooks)) IN
                 /\ cmds' = cmds \o [i \in 1..n |->
                                Cmd("run_post_gen_hooks",
                                    HookCommand(activate_command[1], hooks[i]),
                                    TRUE, project_path, o[i])]
                 /\ log' = log
                      \o (IF variant = "flaskforge"
                          THEN HookErrors(SubSeq(hooks, 1, n), o, 1) ELSE <<>>)
                      \o <<LogInfo("Post-generation hooks executed")>>
                 /\ Return("run_post_gen_hooks")
    /\ UNCHANGED <<config, activate_command, dirs, files, fsops>>

\* ------------------------------------------------------------ the end of run
\* run logs its last message and returns, main returns, the process exits 0
log_success ==
    /\ At("log_success")
    /\ log' = Append(log, LogInfo("Flask project created successfully"))
    /\ pc' = pc + 1
    /\ stages' = Append(stages, "done")
    /\ exit_code' = 0
    /\ UNCHANGED <<config, activate_command, dirs, files, cmds, fsops, exc>>

\* --------------------------------------------------------------- the inputs
HookAlphabet == {"h", " ", ","}
HookStrings == SeqsUpTo(HookAlphabet, MaxHookLen)

BlueprintEntries == {<<>>, <<" ">>, <<"a">>, <<" ", "a">>, <<"b">>}
BlueprintLists == SeqsUpTo(BlueprintEntries, MaxBlueprints)

\* Single names: lower and upper case letters, a word separator, a blank
NameAlphabet == {"a", "B", "_", " "}
BlueprintNames == SeqsUpTo(NameAlphabet, MaxNameLen)

DependencyNames == {<<"Flask">>, <<"Flask-WTF">>}
DependencyLists == SeqsUpTo(DependencyNames, MaxDeps)

\* --venv-dir: <<>> when the option is absent (None), else <<its value>>
VenvDirOptions == {<<>>, << <<>> >>, << <<"e">> >>}

\* What os.walk finds under templates/<template>: the relative path and the
\* text of each file, in walk order
TemplateTrees ==
    { <<>>,
      << [rel |-> <<"main.py">>, body |-> <<"app = '", Placeholder, "'", "\n">>] >>,
      << [rel |-> <<"app", Sep, "base.html">>, body |-> <<"<html>">>],
         [rel |-> <<"Dockerfile">>, body |-> <<"FROM ", Placeholder>>] >>,
      << [rel |-> <<"p", Sep, "__init__.py">>, body |-> <<Placeholder, "\n", "\n">>] >>,
      << [rel |-> <<"p">>, body |-> <<"x">>] >> }

\* What exists under the working directory before the run
NoFiles == [q \in {} |-> <<>>]
InitialTrees(root, name) ==
    LET pkg == PathJoin(root, name)
        tpl == PathJoin(pkg, <<"templates">>)
        sta == PathJoin(pkg, <<"static">>)
    IN  { [dirs |-> {}, files |-> NoFiles],
          [dirs |-> {root, pkg}, files |-> NoFiles],
          [dirs |-> {root, pkg, tpl, sta},
           files |-> [q \in {PathJoin(pkg, <<"keep.txt">>)} |-> <<"old">>]],
          [dirs |-> {root, pkg}, files |-> [q \in {tpl} |-> <<"old">>]],
          [dirs |-> {root},
           files |-> [q \in {PathJoin(root, <<"main.py">>)} |-> <<"old">>]],
          [dirs |-> {}, files |-> [q \in {root} |-> <<"old">>]] }

BaseInput ==
    [name |-> <<"p">>, bps |-> <<>>, deps |-> <<>>, verb |-> 0,
     tpl |-> "rest_api", hooks |-> <<>>, venv |-> <<>>]

\* The configurations: a small product of the options, and around it each
\* option varied over its whole range
Inputs ==
    {[BaseInput EXCEPT !.bps = b, !.deps = d, !.hooks = h, !.venv = e] :
        b \in {<<>>, << <<"a">> >>},
        d \in {<<>>, << <<"Flask">> >>},
        h \in {<<>>, <<"h">>},
        e \in VenvDirOptions}
    \cup {[BaseInput EXCEPT !.hooks = h] : h \in HookStrings}
    \cup {[BaseInput EXCEPT !.bps = b] : b \in BlueprintLists}
    \cup {[BaseInput EXCEPT !.bps = <<n>>] : n \in BlueprintNames}
    \cup {[BaseInput EXCEPT !.deps = d] : d \in DependencyLists}
    \cup {[BaseInput EXCEPT !.verb = v] : v \in -1..5}
    \cup {[BaseInput EXCEPT !.name = n, !.tpl = t] :
            n \in {<<"p">>, <<"q", "r">>}, t \in {"rest_api", "full_stack"}}

\* ------------------------------------------------------ __init__, Init, Next
\* The state after FlaskForge(...) was constructed; start is 1 when main
\* goes on to call run, Direct when the caller calls the methods itself
InitAt(start) ==
    /\ variant \in {"flaskforge", "fforge"}
    /\ platform \in {"Linux", "Windows"}
    /\ \E c \in Inputs :
         /\ project_name = c.name
         /\ blueprints = c.bps
         /\ dependencies = c.deps
         /\ verbosity = c.verb
         /\ template = c.tpl
         /\ post_gen_hooks = c.hooks
         /\ project_path = PathJoin(Cwd, c.name)
         /\ venv_dir = Or(PathJoin(PathJoin(Cwd, c.name), <<".fforge">>),
                          IF c.venv = <<>> THEN <<>>
                          ELSE PathJoin(PathJoin(Cwd, c.name), c.venv[1]))
         /\ venv_dir_option = c.venv
         /\ log_level = LogLevelOf(c.verb)
         /\ \E t \in (IF c = BaseInput THEN TemplateTrees ELSE {<<>>}),
               pre \in (IF c = BaseInput
                        THEN InitialTrees(PathJoin(Cwd, c.name), c.name)
                        ELSE {[dirs |-> {}, files |-> NoFiles]}) :
              /\ template_tree = t
              /\ dirs = {<<Sep>>, Cwd} \cup pre.dirs
              /\ files = pre.files
    /\ activate_command = <<>>
    /\ pc = start
    /\ cmds = <<>>
    /\ log = <<>>
    /\ fsops = <<>>
    /\ stages = <<>>
    /\ exc = ""
    /\ exit_code = -1

Init == InitAt(1)

Next ==
    \/ create_directories
    \/ create_virtualenv
    \/ install_dependencies
    \/ create_base_files
    \/ create_blueprints
    \/ create_init_py
    \/ create_models_py
    \/ create_docker_files
    \/ create_ci_cd_files
    \/ initialize_database
    \/ run_post_gen_hooks
    \/ log_success

Spec == Init /\ [][Next]_vars

\* The scaffolding and rendering methods called directly, in any order
InitCalls == InitAt(Direct)

NextCalls ==
    \/ create_directories
    \/ create_base_files

SpecCalls == InitCalls /\ [][NextCalls]_vars

\* =========================================================== the properties
Entered(stmt) == \E i \in 1..Len(stages) : stages[i] = stmt

\* stmt was called and returned to run
Returned(stmt) ==
    \E i \in 1..Len(stages) : stages[i] = stmt /\ (i < Len(stages) \/ exc = "")

CmdsBy(stmt) == SelectSeq(cmds, LAMBDA c : c.by = stmt)

OpsBy(stmt) == SelectSeq(fsops, LAMBDA op : op.by = stmt)

Logged(level, msg) == \E i \in 1..Len(log) : log[i].level = level /\ log[i].msg = msg

Range(seq) == {seq[i] : i \in 1..Len(seq)}

\* The environment-creation command was run and exited with a non-zero status
VenvCommandFailed ==
    \E i \in 1..Len(cmds) : cmds[i].by = "create_virtualenv" /\ cmds[i].status = 1

\* C1: when the environment-creation command exits non-zero and no filesystem
\* operation fails, the run does not end by an exception: it reaches the end
\* of run, having attempted the database stage and the hook stage, and the
\* process exits 0.
C1_VenvFailureIsIsolated ==
    (VenvCommandFailed /\ exc # "OSError" /\ ~Running) =>
        /\ exit_code = 0
        /\ Entered("initialize_database")
        /\ Entered("run_post_gen_hooks")
        /\ Entered("done")

\* C2: whatever fails in a stage, no exception leaves run and the process
\* never exits with a status other than 0.
C2_NoErrorLeavesRun == exc = "" /\ exit_code \in {-1, 0}

\* The number of entries of a comma-separated list
RECURSIVE CountCommas(_)
CountCommas(s) ==
    IF s = <<>> THEN 0
    ELSE (IF Head(s) = "," THEN 1 ELSE 0) + CountCommas(Tail(s))

EntryCount(s) == IF s = <<>> THEN 0 ELSE CountCommas(s) + 1

\* C3: once run_post_gen_hooks has returned, one hook command has been run
\* for each of the M entries of the hook list, in the order of the list,
\* whatever the exit statuses of the hooks were.
C3_AllHooksInvokedInOrder ==
    Returned("run_post_gen_hooks") =>
        LET run == CmdsBy("run_post_gen_hooks")
            entries == Split(post_gen_hooks, ",")
        IN  /\ Len(run) = EntryCount(post_gen_hooks)
            /\ \A i \in 1..Len(run) :
                 run[i].cmd = activate_command[1] \o <<" && ">> \o Strip(entries[i])

\* A run of three hooks in which the second failed and the third was run
C3_Witness ==
    /\ Returned("run_post_gen_hooks")
    /\ Len(CmdsBy("run_post_gen_hooks")) = 3
    /\ CmdsBy("run_post_gen_hooks")[2].status # 0
    /\ CmdsBy("run_post_gen_hooks")[3].status = 0

NoStageFailed ==
    /\ exc = ""
    /\ \A i \in 1..Len(log) : log[i].level # ERROR
    /\ \A i \in 1..Len(cmds) : cmds[i].status = 0

\* C4: in both variants, a run in which no stage fails executes exactly these
\* stages, once each and in this order.
C4_FixedStageOrder ==
    (exit_code = 0 /\ NoStageFailed) =>
        stages = <<"create_directories", "create_virtualenv",
                   "install_dependencies", "create_base_files",
                   "create_blueprints", "create_init_py", "create_models_py",
                   "create_docker_files", "create_ci_cd_files",
                   "initialize_database", "run_post_gen_hooks", "done">>

\* ----------------------------------------------------------------- C5
\* Where the sub-tree of the blueprint called name is rooted
TreeOf(name) == project_path \o <<Sep>> \o project_name \o <<Sep>> \o name

TreeDirs(name) ==
    {TreeOf(name), TreeOf(name) \o <<Sep, "templates">>, TreeOf(name) \o <<Sep, "static">>}

TreeFiles(name) ==
    {TreeOf(name) \o <<Sep, "routes.py">>,
     TreeOf(name) \o <<Sep, "__init__.py">>,
     TreeOf(name) \o <<Sep, "forms.py">>,
     TreeOf(name) \o <<Sep, "templates", Sep>> \o name \o <<"_home.html">>}

NonBlank(list) == SelectSeq(list, LAMBDA e : \E i \in 1..Len(e) : e[i] # " ")

\* The blueprint directories that create_blueprints made under the package
TreesMade ==
    {op.path : op \in {o \in Range(OpsBy("create_blueprints")) :
                          o.kind = "makedirs" /\ Dirname(o.path) = PackagePath}}

\* C5 as stated: create_blueprints makes as many blueprint sub-trees as the
\* list has entries that are not blank.
C5_OneTreePerEntry ==
    Returned("create_blueprints") =>
        Cardinality(TreesMade) = Len(NonBlank(blueprints))

\* C5 as amended: create_blueprints makes one sub-tree per distinct trimmed
\* non-blank name; for each it makes exactly the 3 directories and writes
\* exactly the 4 files, once per entry carrying that name, and nothing else.
C5_OneTreePerDistinctName ==
    Returned("create_blueprints") =>
        LET names == {Strip(e) : e \in Range(NonBlank(blueprints))}
            ops == OpsBy("create_blueprints")
            made == {o.path : o \in {x \in Range(ops) : x.kind = "makedirs"}}
            written == {o.path : o \in {x \in Range(ops) : x.kind = "write"}}
        IN  /\ Cardinality(TreesMade) = Cardinality(names)
            /\ made = UNION {TreeDirs(n) : n \in names}
            /\ written = UNION {TreeFiles(n) : n \in names}
            /\ Len(ops) = 7 * Len(NonBlank(blueprints))
            /\ made \subseteq dirs
            /\ written \subseteq DOMAIN files
            /\ \A n \in names : Cardinality(TreeDirs(n)) = 3
                                /\ Cardinality(TreeFiles(n)) = 4

\* Two entries that trim to the same name, and one sub-tree
C5_Witness ==
    /\ Returned("create_blueprints")
    /\ Len(blueprints) = 2
    /\ blueprints[1] # blueprints[2]
    /\ Strip(blueprints[1]) = Strip(blueprints[2])
    /\ Strip(blueprints[1]) # <<>>
    /\ Cardinality(TreesMade) = 1

\* ----------------------------------------------------------------- C6
SkeletonDirs ==
    {project_path,
     project_path \o <<Sep>> \o project_name,
     project_path \o <<Sep>> \o project_name \o <<Sep, "templates">>,
     project_path \o <<Sep>> \o project_name \o <<Sep, "static">>}

WorkflowDir == project_path \o <<Sep, ".github", Sep, "workflows">>

FixedFiles ==
    {project_path \o <<Sep>> \o project_name \o <<Sep, "__init__.py">>,
     project_path \o <<Sep>> \o project_name \o <<Sep, "models.py">>,
     project_path \o <<Sep, "Dockerfile">>,
     project_path \o <<Sep, "docker-compose.yml">>,
     WorkflowDir \o <<Sep, "python-app.yml">>}

RenderedFiles ==
    {project_path \o <<Sep>> \o template_tree[i].rel : i \in 1..Len(template_tree)}

MadeByRun == {o.path : o \in {x \in Range(fsops) : x.kind = "makedirs"}}
WrittenByRun == {o.path : o \in {x \in Range(fsops) : x.kind = "write"}}

DbLines(prefix) ==
    << prefix \o <<" && ", "flask db init">>,
       prefix \o <<" && ", "flask db migrate">>,
       prefix \o <<" && ", "flask db upgrade">> >>

C8_OneInstallCommand ==
    Entered("create_base_files") =>
        LET run == CmdsBy("install_dependencies") IN
        IF dependencies = <<>> THEN run = <<>>
        ELSE /\ Len(run) = 1
             /\ HasActivateCommand
             /\ run[1].cmd = activate_command[1] \o <<" && ", "pip install ">>
                               \o JoinStr(<<" ">>, dependencies)
             /\ Len(cmds) = 2
             /\ cmds[1].by = "create_virtualenv"
             /\ cmds[2] = run[1]

\* ----------------------------------------------------------------- C9
\* C9: after create_virtualenv has returned, activate_command is set exactly
\* if the environment-creation command exited with status 0.
C9_PrefixIffCreated ==
    Returned("create_virtualenv") =>
        (HasActivateCommand <=> CmdsBy("create_virtualenv")[1].status = 0)

\* ----------------------------------------------------------------- C10
EnvPath == project_path \o <<Sep, ".fforge">>

ActivationOf(env) ==
    IF platform = "Windows" THEN env \o <<Sep, "Scripts", Sep, "activate">>
    ELSE <<"source ">> \o env \o <<Sep, "bin", Sep, "activate">>

IsPrefixOf(a, b) == Len(a) <= Len(b) /\ SubSeq(b, 1, Len(a)) = a

C11_RenderIdempotent ==
    [][ (/\ Entered("create_base_files")
         /\ stages' = Append(stages, "create_base_files")
         /\ exc' = "")
        => (files' = files /\ dirs' = dirs) ]_vars

\* Two calls in a row have returned and the file rendered from a template
\* with a placeholder holds the project name, once
C11_Witness ==
    /\ pc = Direct
    /\ exc = ""
    /\ stages = <<"create_base_files", "create_base_files">>
    /\ \E i \in 1..Len(template_tree) :
         /\ Placeholder \in Range(template_tree[i].body)
         /\ project_path \o <<Sep>> \o template_tree[i].rel \in DOMAIN files
         /\ files[project_path \o <<Sep>> \o template_tree[i].rel] = <<"app = '">> \o project_name \o <<"'">>

\* ----------------------------------------------------------------- C12
\* The step is a call of create_directories that no environment fault hit
CleanDirectoriesCall ==
    /\ stages' = Append(stages, "create_directories")
    /\ \A i \in (Len(fsops) + 1)..Len(fsops') : fsops'[i].kind # "fault"

\* C12: called in a state where each of the four skeleton paths is absent or
\* a directory, create_directories reports no error, leaves every file and
\* every existing directory as it was, ends with the four directories
\* present, and changes nothing when they were all there already (as on a
\* second call).
C12_DirectoriesIdempotent ==
    [][ (CleanDirectoriesCall /\ \A p \in SkeletonDirs : p \notin DOMAIN files)
        => (/\ exc' = ""
            /\ log' = Append(log, [level |-> INFO, msg |-> "Directories created",
                                   arg |-> <<>>])
            /\ files' = files
            /\ dirs \subseteq dirs'
            /\ SkeletonDirs \subseteq dirs'
            /\ SkeletonDirs \subseteq dirs => dirs' = dirs) ]_vars

\* Two calls have returned without an error, over a tree that already held
\* a file
C12_Witness ==
    /\ pc = Direct
    /\ exc = ""
    /\ stages = <<"create_directories", "create_directories">>
    /\ \A i \in 1..Len(log) : log[i].level # ERROR
    /\ \E q \in DOMAIN files : files[q] = <<"old">>
    /\ SkeletonDirs \subseteq dirs

\* ----------------------------------------------------------------- C13
\* The entry without its leading and trailing blanks, its other characters
\* as they are
Trimmed(e) ==
    LET solid == {i \in 1..Len(e) : e[i] # " "}
    IN  IF solid = {} THEN <<>>
        ELSE SubSeq(e, CHOOSE i \in solid : \A j \in solid : i <= j,
                       CHOOSE i \in solid : \A j \in solid : j <= i)

RouteDecorator == ".route('/"

\* C13: once create_blueprints has returned, for every entry that is not
\* blank the routes.py of its sub-tree holds exactly one route decorator,
\* its path is '/<name>_home' with <name> the trimmed entry character for
\* character, and the child template is the file templates/<name>_home.html
\* of the same sub-tree.
C13_RouteAndTemplateNamedVerbatim ==
    Returned("create_blueprints") =>
        \A k \in 1..Len(blueprints) :
            LET name == Trimmed(blueprints[k])
                routes == TreeOf(name) \o <<Sep, "routes.py">>
                child == TreeOf(name) \o <<Sep, "templates", Sep>> \o name
                         \o <<"_home.html">>
            IN  name # <<>> =>
                  /\ routes \in DOMAIN files
                  /\ Cardinality({i \in 1..Len(files[routes]) :
                                    files[routes][i] = RouteDecorator}) = 1
                  /\ \E i \in 1..Len(files[routes]) :
                       /\ files[routes][i] = RouteDecorator
                       /\ i + Len(name) + 1 <= Len(files[routes])
                       /\ SubSeq(files[routes], i + 1, i + Len(name)) = name
                       /\ files[routes][i + Len(name) + 1] = "_home')\ndef "
                  /\ child \in DOMAIN files
                  /\ \E i \in 1..Len(fsops) :
                       /\ fsops[i].by = "create_blueprints"
                       /\ fsops[i].kind = "write"
                       /\ fsops[i].path = child

\* An entry with a blank in front and an upper-case letter was generated
C13_Witness ==
    /\ Returned("create_blueprints")
    /\ blueprints = << <<" ", "B">> >>
    /\ TreeOf(<<"B">>) \o <<Sep, "routes.py">> \in DOMAIN files
    /\ TreeOf(<<"B">>) \o <<Sep, "templates", Sep, "B", "_home.html">> \in DOMAIN files

\* ----------------------------------------------------------------- C14
\* C14: the level given to the logger is CRITICAL for verbosity 0, ERROR for
\* 1, WARNING for 2, INFO for 3, DEBUG for 4, and INFO for every other integer.
C14_VerbosityTable ==
    /\ verbosity = 0 => log_level = CRITICAL
    /\ verbosity = 1 => log_level = ERROR
    /\ verbosity = 2 => log_level = WARNING
    /\ verbosity = 3 => log_level = INFO
    /\ verbosity = 4 => log_level = DEBUG
    /\ verbosity \notin 0..4 => log_level = INFO
    /\ Cardinality({CRITICAL, ERROR, WARNING, INFO, DEBUG}) = 5

\* A run is under way with a verbosity above the table, at level INFO
C14_Witness ==
    /\ verbosity = 5
    /\ log_level = INFO
    /\ Entered("create_directories")

\* ----------------------------------------------------------------- C15
UsesPrefix(c) ==
    c.by \in {"install_dependencies", "initialize_database", "run_post_gen_hooks"}

\* C15: no prefixed command (install, database, hook) is issued, and no
\* prefix exists, before the environment-creation command was issued; each
\* prefixed command comes after it and begins with the prefix that
\* create_virtualenv stored, followed by ' && '.
C15_PrefixAfterEnvironmentStage ==
    /\ ~Entered("create_virtualenv") => (~HasActivateCommand /\ cmds = <<>>)
    /\ \A i \in 1..Len(cmds) :
         UsesPrefix(cmds[i]) =>
           /\ \E j \in 1..(i - 1) : cmds[j].by = "create_virtualenv"
           /\ \E k \in 1..Len(stages) :
                /\ stages[k] = "create_virtualenv"
                /\ \E m \in (k + 1)..Len(stages) : stages[m] = cmds[i].by
           /\ HasActivateCommand
           /\ IsPrefixOf(activate_command[1] \o <<" && ">>, cmds[i].cmd)

\* fforge.py went on after a failed environment creation and issued the
\* three database commands behind the prefix
C15_Witness ==
    /\ variant = "fforge"
    /\ VenvCommandFailed
    /\ Len(CmdsBy("initialize_database")) = 3
    /\ HasActivateCommand

\* ----------------------------------------------------------------- C16
StageIndex(stmt) ==
    CHOOSE k \in 1..Len(RunBody("flaskforge")) : RunBody("flaskforge")[k] = stmt

\* Every command that was started has exited, with status 0 or 1
EveryProcessExited == \A i \in 1..Len(cmds) : cmds[i].status \in {0, 1}

\* C16: commands are issued one after the other in the order of the stages,
\* each with its exit status known before the next is issued, blueprint
\* sub-trees are generated in the order of the list, and a run all of whose
\* external processes have exited, and which no filesystem error cut short,
\* ends at the end of run.
C16_SequentialToTheEnd ==
    /\ \A i, j \in 1..Len(cmds) :
         i < j => StageIndex(cmds[i].by) <= StageIndex(cmds[j].by)
    /\ \A i \in 1..Len(cmds) : cmds[i].status \in {0, 1, LaunchError}
    /\ LET ops == OpsBy("create_blueprints")
       IN  \A i \in 1..Len(ops) :
             ops[i].kind # "fault" =>
               /\ i <= Len(BlueprintOps(blueprints))
               /\ ops[i].path = BlueprintOps(blueprints)[i].path
    /\ (~Running /\ EveryProcessExited /\ exc # "OSError") => Entered("done")

\* ----------------------------------------------------------------- C17
IsLetter(c) == c \in {"a", "b", "A", "B"}

ChildTemplate(name) ==
    TreeOf(name) \o <<Sep, "templates", Sep>> \o name \o <<"_home.html">>

HeadingOpen == "{% extends \"base.html\" %}\n{% block content %}\n<h1>Welcome to the "
HeadingClose == " Home Page</h1>\n{% endblock %}\n"

\* The text between 'Welcome to the ' and ' Home Page' in the child template
HeadingOf(name) ==
    SubSeq(files[ChildTemplate(name)], 2, Len(files[ChildTemplate(name)]) - 1)

HeadingWritten(name) ==
    /\ ChildTemplate(name) \in DOMAIN files
    /\ Len(files[ChildTemplate(name)]) = Len(name) + 2
    /\ files[ChildTemplate(name)][1] = HeadingOpen
    /\ files[ChildTemplate(name)][Len(name) + 2] = HeadingClose

\* C17 as stated: the heading is the name with the first letter of each word
\* upper-cased.
C17_HeadingTitleCased ==
    Returned("create_blueprints") =>
        \A k \in 1..Len(blueprints) :
            LET name == Trimmed(blueprints[k]) IN
            name # <<>> =>
              /\ HeadingWritten(name)
              /\ \A i \in 1..Len(name) :
                   (IsLetter(name[i]) /\ (i = 1 \/ ~IsLetter(name[i - 1])))
                     => HeadingOf(name)[i] = Upper(name[i])

\* C17 as amended: the heading is the name with its first character
\* upper-cased and every other character lower-cased.
C17_HeadingCapitalized ==
    Returned("create_blueprints") =>
        \A k \in 1..Len(blueprints) :
            LET name == Trimmed(blueprints[k]) IN
            name # <<>> =>
              /\ HeadingWritten(name)
              /\ HeadingOf(name)[1] = Upper(name[1])
              /\ \A i \in 2..Len(name) : HeadingOf(name)[i] = Lower(name[i])

\* The name aB was generated with the heading Ab
C17_Witness ==
    /\ Returned("create_blueprints")
    /\ blueprints = << <<"a", "B">> >>
    /\ HeadingWritten(<<"a", "B">>)
    /\ HeadingOf(<<"a", "B">>) = <<"A", "b">>

\* ----------------------------------------------------------------- C18
\* What a run issues and writes when nothing fails, as a function of the
\* configuration alone
ReferenceCommands ==
    LET prefix == ActivationOf(EnvPath)
        hooks == IF post_gen_hooks = <<>> THEN <<>> ELSE Split(post_gen_hooks, ",")
    IN  <<VenvCommand>>
        \o (IF dependencies = <<>> THEN <<>> ELSE <<InstallCommand(prefix)>>)
        \o DbCommands(prefix)
        \o [i \in 1..Len(hooks) |-> HookCommand(prefix, hooks[i])]

ReferenceOps ==
    DirectoryOps \o BaseFileOps(template_tree) \o BlueprintOps(blueprints)
    \o <<WrOp(InitPyPath, InitPyBody), WrOp(ModelsPyPath, ModelsPyBody),
         WrOp(DockerfilePath, DockerfileBody), WrOp(ComposePath, ComposeBody),
         MkOp(GithubDir), WrOp(WorkflowPath, WorkflowBody)>>

AllCommandsSucceeded ==
    /\ exit_code = 0
    /\ \A i \in 1..Len(cmds) : cmds[i].status = 0
    /\ \A i \in 1..Len(fsops) : fsops[i].kind # "fault"
    /\ \A i \in 1..Len(log) : log[i].level # ERROR

\* C18: a completed run in which every command exited 0 and no directory or
\* file operation failed has issued the same
\* commands in the same order and performed the same writes with the same
\* contents in the same order, whichever of the two variants ran.
C18_VariantsEquivalent ==
    AllCommandsSucceeded =>
        /\ [i \in 1..Len(cmds) |-> cmds[i].cmd] = ReferenceCommands
        /\ [i \in 1..Len(fsops) |->
              [kind |-> fsops[i].kind, path |-> fsops[i].path,
               data |-> fsops[i].data]] = ReferenceOps

\* ----------------------------------------------------------------- C19
\* C19: after a completed run the five fixed files hold their fixed
\* payloads, whatever the template set rendered at those paths.
C19_FixedFilesWin ==
    exit_code = 0 =>
        /\ FixedFiles \subseteq DOMAIN files
        /\ files[project_path \o <<Sep>> \o project_name \o <<Sep, "__init__.py">>]
             = InitPyBody
        /\ files[project_path \o <<Sep>> \o project_name \o <<Sep, "models.py">>]
             = ModelsPyBody
        /\ files[project_path \o <<Sep, "Dockerfile">>] = DockerfileBody
        /\ files[project_path \o <<Sep, "docker-compose.yml">>] = ComposeBody
        /\ files[WorkflowDir \o <<Sep, "python-app.yml">>] = WorkflowBody

\* A completed run whose template set rendered a Dockerfile of its own
C19_Witness ==
    /\ exit_code = 0
    /\ \E i \in 1..Len(template_tree) : template_tree[i].rel = <<"Dockerfile">>
    /\ \E i \in 1..Len(fsops) :
         /\ fsops[i].by = "create_base_files"
         /\ fsops[i].kind = "write"
         /\ fsops[i].path = project_path \o <<Sep, "Dockerfile">>
         /\ fsops[i].data # DockerfileBody
    /\ files[project_path \o <<Sep, "Dockerfile">>] = DockerfileBody

\* ----------------------------------------------------------------- C20
CommasIn(s) == {i \in 1..Len(s) : s[i] = ","}

\* The i-th comma-separated entry of s
EntryAt(s, i) ==
    LET from == IF i = 1 THEN 0
                ELSE CHOOSE a \in CommasIn(s) :
                        Cardinality({c \in CommasIn(s) : c < a}) = i - 2
        later == {c \in CommasIn(s) : c > from}
        to == IF later = {} THEN Len(s) + 1
              ELSE CHOOSE b \in later : \A c \in later : b <= c
    IN  SubSeq(s, from + 1, to - 1)

\* C20: once run_post_gen_hooks has returned, it has issued no command if
\* the hook string is empty, and otherwise one command per comma-separated
\* entry, blank entries included, in order: the activation prefix, ' && '
\* and the trimmed entry, through the shell, in the project directory.
C20_OneCommandPerEntryBlankIncluded ==
    Returned("run_post_gen_hooks") =>
        LET run == CmdsBy("run_post_gen_hooks") IN
        IF post_gen_hooks = <<>> THEN run = <<>>
        ELSE /\ Len(run) = Cardinality(CommasIn(post_gen_hooks)) + 1
             /\ \A i \in 1..Len(run) :
                  /\ run[i].cmd = activate_command[1] \o <<" && ">>
                                  \o Trimmed(EntryAt(post_gen_hooks, i))
                  /\ run[i].cwd = project_path
                  /\ run[i].shell

\* The entry after 'h,' is blank and was issued as the bare prefix and ' && '
C20_Witness ==
    /\ Returned("run_post_gen_hooks")
    /\ post_gen_hooks = <<"h", ",", " ">>
    /\ Len(CmdsBy("run_post_gen_hooks")) = 2
    /\ CmdsBy("run_post_gen_hooks")[2].cmd = activate_command[1] \o <<" && ">>

====
